---- MODULE Spec2Model ----
(***************************************************************************)
(* State-machine model of the Insightra API (src/server/main.py): the      *)
(* report and chat collections of the store, the upload, aggregate, list,  *)
(* delete and chat handlers, the narrative adapter and the cleaning and    *)
(* aggregation pipeline.                                                   *)
(*                                                                         *)
(* Text (column names, keywords, cell text) is a sequence of one-character *)
(* strings, so that strip/lower/replace and substring containment are      *)
(* computed character by character as the code computes them.              *)
(* Time is an integer number of clock ticks: TicksPerSecond ticks make a   *)
(* second, TicksPerDay ticks make a day of the model calendar.             *)
(***************************************************************************)
EXTENDS Integers, Sequences, FiniteSets, TLC

VARIABLES
    now,        \* datetime.datetime.now(): the wall clock, in ticks
    nextOid,    \* the store's ObjectId generator (next _id to hand out)
    reports,    \* app.db.reports: documents in insertion (natural) order
    chats,      \* app.db.chats: documents in insertion (natural) order
    gens,       \* the chat streams opened so far: each chat_generator
                \* coroutine with what its caller has received of it
    response    \* the last response delivered to a caller

vars == <<now, nextOid, reports, chats, gens, response>>

----------------------------------------------------------------------------
(* Bounds of the model *)

MaxClock == 2           \* clock readings after the first within one day
TicksPerSecond == 2     \* clock readings that fall into one second
MaxDocs == 2            \* documents the store ever creates (ObjectIds)
MaxInsights == 5        \* longest insight list the narrative service returns
MaxChunks == 3          \* chunks of one narrative stream
MaxGens == 1            \* chat streams opened (they may run concurrently)
MaxRows == 2            \* rows of a generated raw dataset

\* clock readings of one day of the model calendar
TicksPerDay == MaxClock + 1

----------------------------------------------------------------------------
(* Text *)

\* the function f over 1..n as an explicit tuple (TLC then holds its
\* elements as values instead of evaluating them again at each use)
Tup(f) == f \o <<>>

Lower(ch) ==
    CASE ch = "D" -> "d" [] ch = "R" -> "r" [] ch = "E" -> "e"
      [] ch = "P" -> "p" [] ch = "T" -> "t" [] ch = "C" -> "c"
      [] ch = "N" -> "n" [] ch = "M" -> "m" [] ch = "S" -> "s"
      [] ch = "U" -> "u" [] ch = "A" -> "a"
      [] OTHER -> ch

\* str.lower()
lower(s) == Tup([i \in 1..Len(s) |-> Lower(s[i])])

RECURSIVE lstrip(_)
lstrip(s) == IF s # <<>> /\ Head(s) = " " THEN lstrip(Tail(s)) ELSE s

RECURSIVE rstrip(_)
rstrip(s) ==
    IF s # <<>> /\ s[Len(s)] = " " THEN rstrip(SubSeq(s, 1, Len(s) - 1)) ELSE s

\* str.strip()
strip(s) == rstrip(lstrip(s))

\* str.replace(old, new) for one-character old and new
replace(s, old, new) == Tup([i \in 1..Len(s) |-> IF s[i] = old THEN new ELSE s[i]])

\* k in s   (substring containment)
Contains(s, k) ==
    \E i \in 1..(Len(s) - Len(k) + 1) : SubSeq(s, i, i + Len(k) - 1) = k

\* "".join(parts)
RECURSIVE Concat(_)
Concat(parts) ==
    IF parts = <<>> THEN <<>> ELSE Head(parts) \o Concat(Tail(parts))

----------------------------------------------------------------------------
(* Exceptions.  fastapi.HTTPException derives from Exception, as do the    *)
(* errors of parsing, of the narrative service and of the store driver;    *)
(* asyncio.CancelledError derives from BaseException only.                 *)

NoExc == "none"

ExceptionClasses ==
    {"HTTPException", "ParserError", "TimeoutError", "PyMongoError",
     "JSONDecodeError", "TypeError", "ServiceError", "CancelledError"}

\* what a clause `except Exception` catches
CaughtByExceptException(cls) == cls \in ExceptionClasses \ {"CancelledError"}

----------------------------------------------------------------------------
(* Narrative adapter *)

MockInsights == <<"Revenue", "OpEx", "Efficiency", "Risk Score">>

\* get_mock_ai_response()
get_mock_ai_response ==
    [executive_summary |-> "mock_summary", insights |-> MockInsights]

(* What the narrative service does for one call.                           *)
(*   model: whether get_ai_model() yields a model ("none" | "ok")          *)
(*   call : "raises" (generate_content_async or response.text raises) or   *)
(*          "text"                                                         *)
(*   json : what json.loads makes of the text: "invalid" (raises), a       *)
(*          non-object value ("null", "number", "string", "list"), or      *)
(*          "dict" with the keys and the insights value described by       *)
(*          hasSummary, hasInsights, insightsIsList, n (length of list)    *)
SvcOutcome(model, call, json, hasSummary, hasInsights, insightsIsList, n) ==
    [model |-> model, call |-> call, json |-> json, hasSummary |-> hasSummary,
     hasInsights |-> hasInsights, insightsIsList |-> insightsIsList, n |-> n]

SvcUnavailable == SvcOutcome("none", "raises", "invalid", FALSE, FALSE, FALSE, 0)
SvcCanonical == SvcOutcome("ok", "text", "dict", TRUE, TRUE, TRUE, 4)

ServiceOutcomes ==
    {SvcUnavailable, SvcOutcome("ok", "raises", "invalid", FALSE, FALSE, FALSE, 0)}
    \cup {SvcOutcome("ok", "text", j, FALSE, FALSE, FALSE, 0) :
             j \in {"invalid", "null", "number", "string", "list"}}
    \cup {SvcOutcome("ok", "text", "dict", s, FALSE, FALSE, 0) : s \in BOOLEAN}
    \cup {SvcOutcome("ok", "text", "dict", s, TRUE, FALSE, 0) : s \in BOOLEAN}
    \cup {SvcOutcome("ok", "text", "dict", s, TRUE, TRUE, n) :
             s \in BOOLEAN, n \in 0..MaxInsights}

\* the insight list the service sent, as parsed
SvcInsights(svc) == Tup([i \in 1..svc.n |-> "svc"])

\* dict.get("executive_summary") on the parsed object
SvcSummary(svc) == IF svc.hasSummary THEN "svc_summary" ELSE "None"

(* Lines 178-184, the body of the try: the exception it raises, or the     *)
(* value it returns.  `"insights" not in data` raises TypeError for null   *)
(* and numbers; for a string or a list the test succeeds or not, and the   *)
(* item access or assignment data["insights"] raises TypeError either way. *)
AdapterTryBody(svc) ==
    IF svc.call = "raises" THEN [exc |-> "ServiceError"]
    ELSE IF svc.json = "invalid" THEN [exc |-> "JSONDecodeError"]
    ELSE IF svc.json # "dict" THEN [exc |-> "TypeError"]
    ELSE IF ~svc.hasInsights \/ ~svc.insightsIsList
         THEN [exc |-> NoExc,
               value |-> [executive_summary |-> SvcSummary(svc),
                          insights |-> get_mock_ai_response.insights]]
         ELSE [exc |-> NoExc,
               value |-> [executive_summary |-> SvcSummary(svc),
                          insights |-> SvcInsights(svc)]]

\* generate_ai_report_async: [exc, value]; exc is what escapes the adapter
generate_ai_report_async(svc) ==
    IF svc.model = "none"
    THEN [exc |-> NoExc, value |-> get_mock_ai_response]
    ELSE LET t == AdapterTryBody(svc)
         IN  IF t.exc = NoExc THEN t
             ELSE IF CaughtByExceptException(t.exc)
                  THEN [exc |-> NoExc, value |-> get_mock_ai_response]
                  ELSE [exc |-> t.exc]

----------------------------------------------------------------------------
(* Cells and frames.  A cell is a number, a missing value (NaN/NaT/None),  *)
(* a text or a timestamp; a frame (pandas DataFrame) is a sequence of      *)
(* column names and a sequence of rows, each row a sequence of cells       *)
(* aligned with the columns.                                               *)

Num(n) == [k |-> "num", n |-> n, s |-> <<>>]
NaN == [k |-> "nan", n |-> 0, s |-> <<>>]
Txt(s) == [k |-> "str", n |-> 0, s |-> s]
Dt(t) == [k |-> "date", n |-> t, s |-> <<>>]

Frame(cols, rows) == [cols |-> cols, rows |-> rows]
EmptyFrame == Frame(<<>>, <<>>)

Range(f) == {f[i] : i \in DOMAIN f}

\* the cells of column j
Column(df, j) == Tup([r \in 1..Len(df.rows) |-> df.rows[r][j]])

\* pandas dtype of a column: float64/int64 when every present value is a
\* number (an all-missing column is float64), datetime64 when every present
\* value is a timestamp and one is present, object otherwise
Dtype(cells) ==
    IF \A i \in DOMAIN cells : cells[i].k \in {"num", "nan"} THEN "number"
    ELSE IF \A i \in DOMAIN cells : cells[i].k \in {"date", "nan"} THEN "datetime"
    ELSE "object"

Digits == <<"0", "1", "2", "3", "4", "5", "6", "7", "8", "9">>
IsDigit(ch) == \E d \in 1..10 : Digits[d] = ch
DigitValue(ch) == (CHOOSE d \in 1..10 : Digits[d] = ch) - 1

\* decimal value of a string of digits
RECURSIVE DigitsToInt(_)
DigitsToInt(s) ==
    IF s = <<>> THEN 0
    ELSE 10 * DigitsToInt(SubSeq(s, 1, Len(s) - 1)) + DigitValue(s[Len(s)])

\* str(n) for n >= 0
RECURSIVE IntToDigits(_)
IntToDigits(n) ==
    IF n < 10 THEN <<Digits[n + 1]>>
    ELSE IntToDigits(n \div 10) \o <<Digits[(n % 10) + 1]>>

\* str(n)
IntToStr(n) == IF n < 0 THEN <<"-">> \o IntToDigits(-n) ELSE IntToDigits(n)

(* Date text of the model: the day number in decimal digits ("12" is      *)
(* midnight of day 12), optionally followed by "T" and the tick of the     *)
(* day ("12T3"), which is what isoformat() writes.                         *)
AllDigits(s) == s # <<>> /\ \A i \in 1..Len(s) : IsDigit(s[i])

\* datetime.isoformat() of clock reading t
isoformat(t) ==
    IntToDigits(t \div TicksPerDay) \o <<"T">> \o IntToDigits(t % TicksPerDay)

(* pd.to_datetime(value, errors='coerce'): text that is no date text is    *)
(* unparseable and becomes NaT.  A number is read as nanoseconds since     *)
(* the epoch, which is within tick 0.                                      *)
to_datetime(c) ==
    CASE c.k = "date" -> c
      [] c.k = "num" -> Dt(0)
      [] c.k = "str" ->
            IF AllDigits(c.s) THEN Dt(DigitsToInt(c.s) * TicksPerDay)
            ELSE IF \E p \in 1..Len(c.s) :
                        /\ c.s[p] = "T"
                        /\ AllDigits(SubSeq(c.s, 1, p - 1))
                        /\ AllDigits(SubSeq(c.s, p + 1, Len(c.s)))
                        /\ DigitsToInt(SubSeq(c.s, p + 1, Len(c.s))) < TicksPerDay
                 THEN LET p == CHOOSE q \in 1..Len(c.s) : c.s[q] = "T"
                      IN  Dt(DigitsToInt(SubSeq(c.s, 1, p - 1)) * TicksPerDay
                             + DigitsToInt(SubSeq(c.s, p + 1, Len(c.s))))
                 ELSE NaN
      [] OTHER -> NaN

\* Series.ffill(): each missing cell takes the nearest present cell above it
ffill(cells) ==
    Tup([i \in DOMAIN cells |->
        IF cells[i].k # "nan" THEN cells[i]
        ELSE IF \E j \in 1..(i - 1) : cells[j].k # "nan"
             THEN cells[CHOOSE j \in 1..(i - 1) :
                          /\ cells[j].k # "nan"
                          /\ \A m \in (j + 1)..(i - 1) : cells[m].k = "nan"]
             ELSE NaN])

\* Series.fillna(v)
fillna(cells, v) == Tup([i \in DOMAIN cells |-> IF cells[i].k = "nan" THEN v ELSE cells[i]])

(* Series.median(): the middle of the present values, the mean of the two  *)
(* middle ones for an even count (numbers of the model are integers: the   *)
(* input sets keep that mean whole), NaN when no value is present.         *)
Present(cells) == {i \in DOMAIN cells : cells[i].k = "num"}

\* the k-th smallest present value, k from 1
KthSmallest(cells, k) ==
    LET P == Present(cells)
    IN  CHOOSE v \in {cells[i].n : i \in P} :
            /\ Cardinality({i \in P : cells[i].n < v}) < k
            /\ Cardinality({i \in P : cells[i].n <= v}) >= k

median(cells) ==
    LET c == Cardinality(Present(cells))
    IN  IF c = 0 THEN NaN
        ELSE IF c % 2 = 1 THEN Num(KthSmallest(cells, (c + 1) \div 2))
        ELSE Num((KthSmallest(cells, c \div 2) + KthSmallest(cells, c \div 2 + 1)) \div 2)

\* line 118: the standardized header of one column
StandardizeHeader(col) == replace(replace(lower(strip(col)), " ", "_"), "-", "_")

\* DataFrame.drop_duplicates(): a row equal to an earlier row is dropped
drop_duplicates(rows) ==
    LET keep == {i \in DOMAIN rows : \A j \in 1..(i - 1) : rows[j] # rows[i]}
        F[i \in 0..Len(rows)] ==
            IF i = 0 THEN <<>>
            ELSE IF i \in keep THEN Append(F[i - 1], rows[i]) ELSE F[i - 1]
    IN  F[Len(rows)]

kw_date == <<"d","a","t","e">>
kw_time == <<"t","i","m","e">>

\* Series.astype(str).str.strip() on one cell
AsStrStripped(c) ==
    CASE c.k = "str" -> Txt(strip(c.s))
      [] c.k = "num" -> Txt(IntToStr(c.n))
      [] OTHER -> c

(* lines 123-139: the cleaned cells of one column.  The dtypes are those   *)
(* of the frame after drop_duplicates; `t` is datetime.datetime.now().     *)
CleanColumn(col, cells, t) ==
    CASE Dtype(cells) = "number" -> fillna(cells, median(cells))
      [] Dtype(cells) = "object" ->
            IF Contains(col, kw_date) \/ Contains(col, kw_time)
            THEN fillna(ffill(Tup([i \in DOMAIN cells |-> to_datetime(cells[i])])), Dt(t))
            ELSE Tup([i \in DOMAIN cells |->
                    AsStrStripped(fillna(cells,
                                         Txt(<<"U","n","k","n","o","w","n">>))[i])])
      [] OTHER -> cells

\* the rows of a frame whose columns are the given cell sequences
RowsOf(columns, nrows) ==
    Tup([r \in 1..nrows |-> Tup([j \in 1..Len(columns) |-> columns[j][r]])])

\* subsequence of s at the positions in keep, in order
Pick(s, keep) ==
    LET F[i \in 0..Len(s)] ==
            IF i = 0 THEN <<>>
            ELSE IF i \in keep THEN Append(F[i - 1], s[i]) ELSE F[i - 1]
    IN  F[Len(s)]

\* DataFrame.dropna(how='all', axis=0).dropna(how='all', axis=1)
dropna_all(df) ==
    LET keepR == {r \in 1..Len(df.rows) :
                     \E j \in 1..Len(df.cols) : df.rows[r][j].k # "nan"}
        rows1 == Pick(df.rows, keepR)
        keepC == {j \in 1..Len(df.cols) :
                     \E r \in 1..Len(rows1) : rows1[r][j].k # "nan"}
    IN  Frame(Pick(df.cols, keepC),
              Tup([r \in 1..Len(rows1) |-> Pick(rows1[r], keepC)]))

\* clean_data(df), run at clock reading t
clean_data(df, t) ==
    LET cols == Tup([j \in 1..Len(df.cols) |-> StandardizeHeader(df.cols[j])])
        rows == drop_duplicates(df.rows)
        d1 == Frame(cols, rows)
        cleaned == Tup([j \in 1..Len(cols) |-> CleanColumn(cols[j], Column(d1, j), t)])
    IN  dropna_all(Frame(cols, RowsOf(cleaned, Len(rows))))

(* df.to_dict(orient='records') followed by pd.DataFrame(records): a dict  *)
(* keeps one entry per column name, at the place of the first column of    *)
(* that name and with the value of the last one.                           *)
to_dict_records(df) ==
    LET first == {j \in 1..Len(df.cols) : \A i \in 1..(j - 1) : df.cols[i] # df.cols[j]}
        last(j) == CHOOSE m \in 1..Len(df.cols) :
                      /\ df.cols[m] = df.cols[j]
                      /\ \A i \in (m + 1)..Len(df.cols) : df.cols[i] # df.cols[j]
        firsts == Pick(Tup([j \in 1..Len(df.cols) |-> j]), first)
    IN  Frame(Tup([x \in 1..Len(firsts) |-> df.cols[firsts[x]]]),
              Tup([r \in 1..Len(df.rows) |->
                  Tup([x \in 1..Len(firsts) |-> df.rows[r][last(firsts[x])]])]))

----------------------------------------------------------------------------
(* Identifiers.  An identifier is a pair of a kind and a number:           *)
(*   <<"REP", s>>   f"REP_{now:%Y%m%d%H%M%S}", s the second of the clock   *)
(*   <<"CHAT", t>>  f"CHAT_{now.timestamp()}", t the clock reading         *)
(*   <<"oid", n>>   str(ObjectId) of the store's n-th document             *)
(*   <<"client", n>> an identifier a client made up                        *)

ReportId(t) == <<"REP", t \div TicksPerSecond>>
ChatId(t) == <<"CHAT", t>>
OidStr(n) == <<"oid", n>>

\* bson.ObjectId(s): raises InvalidId unless s is the text of an ObjectId
IsObjectIdText(id) == id[1] = "oid"

Users == {"A", "B"}

----------------------------------------------------------------------------
(* Uploaded files *)

h_raw_content == <<"r","a","w","_","c","o","n","t","e","n","t">>
h_date == <<"d","a","t","e">>

\* a file: its extension, whether pandas can read it, the frame pandas
\* reads from it, and for raw text the records the structuring layer finds
File(ext, parses, df, structured) ==
    [ext |-> ext, parses |-> parses, df |-> df, structured |-> structured]

\* test.csv of src/test_delete.py: date,revenue,expense / 2023-01-01,100,50
\* (day 1 stands for the date; the expense is 40 as in the spec's example)
CsvDelete == File("csv", TRUE,
                  Frame(<<h_date, <<"R","e","v","e","n","u","e">>,
                          <<"E","x","p","e","n","s","e">>>>,
                        <<<<Txt(<<"1">>), Num(100), Num(40)>>>>), EmptyFrame)

\* a file pandas cannot read
CsvBroken == File("csv", FALSE, EmptyFrame, EmptyFrame)

\* free text in which the structuring layer finds no record
TextPlain == File("txt", TRUE, EmptyFrame, EmptyFrame)

(* lines 258-283: the frame parsed from the file, or the exception the     *)
(* parsing step raises.  Any error of the readers is caught by the inner   *)
(* `except Exception` and raised again as HTTPException(400).              *)
ParseFile(file, t) ==
    IF file.ext \in {"csv", "xlsx", "json"}
    THEN IF file.parses
         THEN [exc |-> NoExc, df |-> file.df, unstructured |-> FALSE]
         ELSE IF CaughtByExceptException("ParserError")
              THEN [exc |-> "HTTPException", status_code |-> 400]
              ELSE [exc |-> "ParserError", status_code |-> 0]
    ELSE [exc |-> NoExc, unstructured |-> TRUE,
          df |-> IF Len(file.structured.rows) > 0 THEN file.structured
                 ELSE Frame(<<h_raw_content, h_date>>,
                            <<<<Txt(<<"h","e","l","l","o">>), Txt(isoformat(t))>>>>)]

\* what the store does with one write
DbOutcomes == {"ok", "error", "timeout", "timeout_applied"}

\* StatusAfterInsert with a handler that catches the driver's errors only,
\* so that the timeout of asyncio.wait_for escapes
StatusAfterInsertTimeoutEscapes(db) ==
    IF db = "ok" THEN [exc |-> NoExc, status |-> "completed"]
    ELSE IF db = "error" THEN [exc |-> NoExc, status |-> "preview_only"]
    ELSE [exc |-> "TimeoutError", status |-> "completed"]

(* lines 331-336: the status of the report after the insert was awaited:   *)
(* a driver error and asyncio.TimeoutError are both caught by              *)
(* `except Exception`, which sets "preview_only".                          *)
StatusAfterInsert(db) ==
    IF db = "ok" THEN [exc |-> NoExc, status |-> "completed"]
    ELSE LET cls == IF db = "error" THEN "PyMongoError" ELSE "TimeoutError"
         IN  IF CaughtByExceptException(cls)
             THEN [exc |-> NoExc, status |-> "preview_only"]
             ELSE [exc |-> cls, status |-> "completed"]

(* lines 253-340, the body of the outer try of process_upload at clock     *)
(* reading t: the exception that leaves it, or the report it returns and   *)
(* the document the store receives.                                        *)
UploadTryBody(u, file, svc, db, t) ==
    LET parsed == ParseFile(file, t)
    IN  IF parsed.exc # NoExc
        THEN [exc |-> parsed.exc, status_code |-> parsed.status_code]
        ELSE
        LET df == clean_data(parsed.df, t)
            ai == generate_ai_report_async(svc)
        IN  IF ai.exc # NoExc THEN [exc |-> ai.exc, status_code |-> 0]
            ELSE
            LET report_data ==
                    [id |-> ReportId(t),
                     user_id |-> u,
                     executive_summary |-> ai.value.executive_summary,
                     insights |-> ai.value.insights,
                     cleaned_data |-> to_dict_records(df),
                     is_unstructured |-> parsed.unstructured,
                     status |-> "completed",
                     created_at |-> isoformat(t)]
                after == StatusAfterInsert(db)
            IN  IF after.exc # NoExc THEN [exc |-> after.exc, status_code |-> 0]
                ELSE [exc |-> NoExc,
                      sent |-> report_data,
                      written |-> db \in {"ok", "timeout_applied"},
                      body |-> [report_data EXCEPT !.status = after.status]]

(* process_upload: the outer `except Exception` (lines 342-344) turns any  *)
(* exception of the body, HTTPException included, into HTTPException(500). *)
process_upload(u, file, svc, db, t) ==
    LET b == UploadTryBody(u, file, svc, db, t)
    IN  IF b.exc = NoExc THEN [code |-> 200, body |-> b.body,
                               written |-> b.written, sent |-> b.sent]
        ELSE IF CaughtByExceptException(b.exc)
             THEN [code |-> 500, written |-> FALSE]
             ELSE [code |-> b.status_code, written |-> FALSE]

\* insert_one: the store gives the document its _id
WithOid(doc, n) ==
    [oid |-> n, id |-> doc.id, user_id |-> doc.user_id,
     executive_summary |-> doc.executive_summary, insights |-> doc.insights,
     cleaned_data |-> doc.cleaned_data, is_unstructured |-> doc.is_unstructured,
     status |-> doc.status, created_at |-> doc.created_at]

\* doc.pop('_id', None)
WithoutOid(d) ==
    [id |-> d.id, user_id |-> d.user_id,
     executive_summary |-> d.executive_summary, insights |-> d.insights,
     cleaned_data |-> d.cleaned_data, is_unstructured |-> d.is_unstructured,
     status |-> d.status, created_at |-> d.created_at]

NoResponse == [op |-> "none"]

Init ==
    /\ now = 0
    /\ nextOid = 1
    /\ reports = <<>>
    /\ chats = <<>>
    /\ gens = <<>>
    /\ response = NoResponse

\* the clock advances to its next reading of the same day
Tick ==
    /\ (now % TicksPerDay) < MaxClock
    /\ now' = now + 1
    /\ UNCHANGED <<nextOid, reports, chats, gens, response>>

\* the clock advances to midnight of a later day d
NextDay(d) ==
    /\ d > now \div TicksPerDay
    /\ now' = d * TicksPerDay
    /\ UNCHANGED <<nextOid, reports, chats, gens, response>>

\* POST /upload
Upload(u, file, svc, db) ==
    \E r \in {process_upload(u, file, svc, db, now)} :
        /\ nextOid <= MaxDocs
        /\ IF r.written
           THEN /\ reports' = Append(reports, WithOid(r.sent, nextOid))
                /\ nextOid' = nextOid + 1
           ELSE UNCHANGED <<reports, nextOid>>
        /\ response' = [op |-> "upload", user |-> u, code |-> r.code,
                        file |-> file, svc |-> svc, db |-> db,
                        body |-> IF r.code = 200 THEN <<r.body>> ELSE <<>>]
        /\ UNCHANGED <<now, chats, gens>>

\* positions of the documents of a collection that match a filter on id
MatchingId(coll, id) == {i \in DOMAIN coll : coll[i].id = id}
MatchingOid(coll, n) == {i \in DOMAIN coll : coll[i].oid = n}
Min(S) == CHOOSE x \in S : \A y \in S : x <= y

\* the collection without the document at position i
RemoveAt(coll, i) == Pick(coll, DOMAIN coll \ {i})

(* delete_one({"id": id}), then, when nothing was deleted, delete_one by   *)
(* ObjectId(id), which raises InvalidId (swallowed by the bare except)     *)
(* unless id is the text of an ObjectId: the position of the document      *)
(* deleted, 0 when there is none.                                          *)
DeleteTarget(coll, id) ==
    IF MatchingId(coll, id) # {} THEN Min(MatchingId(coll, id))
    ELSE IF IsObjectIdText(id) /\ MatchingOid(coll, id[2]) # {}
         THEN Min(MatchingOid(coll, id[2]))
         ELSE 0

(* lines 518-538: the status code of delete_report given the position of   *)
(* the deleted document.  The HTTPException(404) is raised inside the try  *)
(* and caught by its `except Exception`, which raises HTTPException(500).  *)
delete_report_code(target) ==
    IF target > 0 THEN 200
    ELSE IF CaughtByExceptException("HTTPException") THEN 500 ELSE 404

\* the created_at of a stored report as a clock reading (ISO texts of
\* equal layout sort as the instants they denote)
CreatedAt(d) == to_datetime(Txt(d.created_at)).n

\* the orders in which find(...).sort(key, -1) may return the documents at
\* the positions P: newest first, equal keys in either order
SortedDesc(coll, P, Key(_)) ==
    {o \in [1..Cardinality(P) -> P] :
        /\ \A i, j \in DOMAIN o : i # j => o[i] # o[j]
        /\ \A i, j \in DOMAIN o : i < j => Key(coll[o[i]]) >= Key(coll[o[j]])}

\* GET /reports
ListReports(u) ==
    \E o \in SortedDesc(reports, {i \in DOMAIN reports : reports[i].user_id = u},
                        CreatedAt) :
        /\ response' = [op |-> "list_reports", user |-> u, code |-> 200,
                        body |-> Tup([i \in DOMAIN o |-> WithoutOid(reports[o[i]])]),
                        owners |-> {reports[o[i]].user_id : i \in DOMAIN o}]
        /\ UNCHANGED <<now, nextOid, reports, chats, gens>>

\* DELETE /reports/{report_id}, sent by user u (the request carries no user)
DeleteReport(u, report_id) ==
    \E target \in {DeleteTarget(reports, report_id)} :
        /\ reports' = IF target > 0 THEN RemoveAt(reports, target) ELSE reports
        /\ response' = [op |-> "delete_report", user |-> u,
                        code |-> delete_report_code(target),
                        id |-> report_id,
                        owners |-> IF target > 0 THEN {reports[target].user_id}
                                   ELSE {}]
        /\ UNCHANGED <<now, nextOid, chats, gens>>

\* identifiers a client may send for stored documents: their ids and the
\* texts of their ObjectIds
KnownIds(coll) ==
    {coll[i].id : i \in DOMAIN coll} \cup {OidStr(coll[i].oid) : i \in DOMAIN coll}

----------------------------------------------------------------------------
(* Aggregate analytics *)

kw_revenue == <<"r","e","v","e","n","u","e">>
kw_profit == <<"p","r","o","f","i","t">>
h_date_parsed == <<"d","a","t","e","_","p","a","r","s","e","d">>
h_profit_generated ==
    <<"p","r","o","f","i","t","_","g","e","n","e","r","a","t","e","d">>

\* the keyword lists of lines 378 and 395-397
DateKeywords == <<kw_date, kw_time, <<"p","e","r","i","o","d">>, <<"d","a","y">>>>
RevenueKeywords ==
    <<kw_revenue, <<"s","a","l","e","s">>, <<"i","n","c","o","m","e">>,
      <<"t","o","t","a","l">>>>
ExpenseKeywords ==
    <<<<"e","x","p","e","n","s","e">>, <<"c","o","s","t">>, <<"s","p","e","n","d">>,
      <<"p","a","y","o","u","t">>, <<"c","h","a","r","g","e","s">>>>
ProfitKeywords == <<kw_profit, <<"m","a","r","g","i","n">>, <<"n","e","t">>>>

\* any(k in c.lower() for k in keywords)
Matches(c, keywords) == \E i \in DOMAIN keywords : Contains(lower(c), keywords[i])

(* next((c for c in columns if any(...)), None): the first column, in      *)
(* column order, that matches; <<>> stands for None, <<c>> for column c.   *)
FirstMatch(columns, keywords) ==
    LET hits == {j \in DOMAIN columns : Matches(columns[j], keywords)}
    IN  IF hits = {} THEN <<>> ELSE <<columns[Min(hits)]>>

\* position of the column of that name
ColIndex(df, name) == Min({j \in DOMAIN df.cols : df.cols[j] = name})

\* df[name] = cells: replaces the column of that name, or adds it as last
SetColumn(df, name, cells) ==
    IF \E j \in DOMAIN df.cols : df.cols[j] = name
    THEN Frame(df.cols,
               Tup([r \in DOMAIN df.rows |->
                   Tup([j \in DOMAIN df.cols |->
                       IF j = ColIndex(df, name) THEN cells[r] ELSE df.rows[r][j]])]))
    ELSE Frame(Append(df.cols, name),
               Tup([r \in DOMAIN df.rows |-> Append(df.rows[r], cells[r])]))

\* DataFrame.empty
IsEmpty(df) == Len(df.rows) = 0 \/ Len(df.cols) = 0

(* lines 377-386: the frame of one report with its date_parsed column:     *)
(* the report's own date column parsed, or the creation date when it has   *)
(* none; what does not parse is filled with the creation date.             *)
WithDateParsed(df_temp, created_at) ==
    LET d_col == FirstMatch(df_temp.cols, DateKeywords)
        created == to_datetime(Txt(created_at))
        parsed == IF d_col # <<>>
                  THEN Tup([r \in DOMAIN df_temp.rows |->
                           to_datetime(df_temp.rows[r][ColIndex(df_temp, d_col[1])])])
                  ELSE Tup([r \in DOMAIN df_temp.rows |-> created])
    IN  SetColumn(df_temp, h_date_parsed, fillna(parsed, created))

\* the fallback applied with one timestamp for all datasets, that of the
\* first report
RECURSIVE ProcessedRowsFirstStamp(_)
ProcessedRowsFirstStamp(all_reports) ==
    IF all_reports = <<>> THEN <<>>
    ELSE LET report == all_reports[Len(all_reports)]
             before == ProcessedRowsFirstStamp(
                           SubSeq(all_reports, 1, Len(all_reports) - 1))
         IN  IF IsEmpty(report.cleaned_data) THEN before
             ELSE Append(before, WithDateParsed(report.cleaned_data,
                                                all_reports[1].created_at))

\* lines 369-387: the frames of the reports that have rows
RECURSIVE ProcessedRows(_)
ProcessedRows(all_reports) ==
    IF all_reports = <<>> THEN <<>>
    ELSE LET report == all_reports[Len(all_reports)]
             before == ProcessedRows(SubSeq(all_reports, 1, Len(all_reports) - 1))
         IN  IF IsEmpty(report.cleaned_data) THEN before
             ELSE Append(before, WithDateParsed(report.cleaned_data, report.created_at))

\* the report each row of the merged frame comes from (its _id)
RECURSIVE RowSources(_)
RowSources(all_reports) ==
    IF all_reports = <<>> THEN <<>>
    ELSE LET report == all_reports[Len(all_reports)]
             before == RowSources(SubSeq(all_reports, 1, Len(all_reports) - 1))
         IN  IF IsEmpty(report.cleaned_data) THEN before
             ELSE before \o Tup([r \in DOMAIN report.cleaned_data.rows |-> report.oid])

\* the columns of pd.concat(frames): their union, in order of appearance
RECURSIVE UnionCols(_)
UnionCols(frames) ==
    IF frames = <<>> THEN <<>>
    ELSE LET head == UnionCols(SubSeq(frames, 1, Len(frames) - 1))
             last == frames[Len(frames)]
         IN  head \o Pick(last.cols, {j \in DOMAIN last.cols :
                                        \A i \in DOMAIN head : head[i] # last.cols[j]})

\* a merge that keeps one of several equal rows
concat_drop_duplicates(frames) ==
    LET cols == UnionCols(frames)
        Widen(f, row) ==
            Tup([j \in DOMAIN cols |->
                IF \E i \in DOMAIN f.cols : f.cols[i] = cols[j]
                THEN row[ColIndex(f, cols[j])] ELSE NaN])
        F[i \in 0..Len(frames)] ==
            IF i = 0 THEN <<>>
            ELSE F[i - 1] \o Tup([r \in DOMAIN frames[i].rows |->
                                     Widen(frames[i], frames[i].rows[r])])
    IN  Frame(cols, drop_duplicates(F[Len(frames)]))

\* pd.concat(frames, ignore_index=True): the rows of all frames, in order,
\* over the union of the columns; a column a frame lacks is missing there
concat(frames) ==
    LET cols == UnionCols(frames)
        Widen(f, row) ==
            Tup([j \in DOMAIN cols |->
                IF \E i \in DOMAIN f.cols : f.cols[i] = cols[j]
                THEN row[ColIndex(f, cols[j])] ELSE NaN])
        F[i \in 0..Len(frames)] ==
            IF i = 0 THEN <<>>
            ELSE F[i - 1] \o Tup([r \in DOMAIN frames[i].rows |->
                                     Widen(frames[i], frames[i].rows[r])])
    IN  Frame(cols, F[Len(frames)])

\* astype(str) on one cell
AsStr(c) ==
    CASE c.k = "str" -> c.s
      [] c.k = "num" -> IntToStr(c.n)
      [] c.k = "date" -> isoformat(c.n)
      [] OTHER -> <<"n","a","n">>

\* str.replace(r'[^\d.]', '', regex=True)
KeepDigitsAndDots(s) == Pick(s, {i \in DOMAIN s : IsDigit(s[i]) \/ s[i] = "."})

(* pd.to_numeric(cell, errors='coerce').  Numbers of the model are whole:   *)
(* a text with a decimal point is outside the inputs and counts as not     *)
(* parseable.  A timestamp converts to its clock reading.                  *)
to_numeric(c) ==
    CASE c.k = "num" -> c
      [] c.k = "str" -> IF AllDigits(c.s) THEN Num(DigitsToInt(c.s)) ELSE NaN
      [] c.k = "date" -> Num(c.n)
      [] OTHER -> NaN

\* lines 402-405: one role column made numeric, missing values set to 0
CoerceColumn(cells) ==
    IF Dtype(cells) = "object"
    THEN fillna(Tup([r \in DOMAIN cells |->
                    to_numeric(Txt(KeepDigitsAndDots(AsStr(cells[r]))))]), Num(0))
    ELSE fillna(Tup([r \in DOMAIN cells |-> to_numeric(cells[r])]), Num(0))

\* lines 400-405: the loop over [rev_col, exp_col, prof_col]
RECURSIVE CoerceColumns(_, _)
CoerceColumns(df, role_cols) ==
    IF role_cols = <<>> THEN df
    ELSE LET col == role_cols[1]
             rest == SubSeq(role_cols, 2, Len(role_cols))
         IN  IF col # <<>>
             THEN CoerceColumns(SetColumn(df, col[1],
                                    CoerceColumn(Column(df, ColIndex(df, col[1])))),
                                rest)
             ELSE CoerceColumns(df, rest)

(* lines 394-410: the merged frame with its role columns numeric and, when *)
(* revenue and expense are resolved and profit is not, with the column     *)
(* profit_generated; the columns resolved for the three roles.             *)
ResolveAndDerive(merged) ==
    LET rev_col == FirstMatch(merged.cols, RevenueKeywords)
        exp_col == FirstMatch(merged.cols, ExpenseKeywords)
        prof_col == FirstMatch(merged.cols, ProfitKeywords)
        df == CoerceColumns(merged, <<rev_col, exp_col, prof_col>>)
    IN  IF rev_col # <<>> /\ exp_col # <<>> /\ prof_col = <<>>
        THEN [df |-> SetColumn(df, h_profit_generated,
                        Tup([r \in DOMAIN df.rows |->
                            Num(df.rows[r][ColIndex(df, rev_col[1])].n
                                - df.rows[r][ColIndex(df, exp_col[1])].n)])),
              rev_col |-> rev_col, exp_col |-> exp_col,
              prof_col |-> <<h_profit_generated>>]
        ELSE [df |-> df, rev_col |-> rev_col, exp_col |-> exp_col,
              prof_col |-> prof_col]

\* FilterByDate with an end date that is exclusive
FilterByDateExclusiveEnd(df, start_date, end_date) ==
    LET d == ColIndex(df, h_date_parsed)
        Keeps(row) ==
            /\ start_date # <<>> =>
                  (row[d].k = "date" /\ row[d].n >= to_datetime(Txt(start_date[1])).n)
            /\ end_date # <<>> =>
                  (row[d].k = "date" /\ row[d].n < to_datetime(Txt(end_date[1])).n)
    IN  Frame(df.cols, Pick(df.rows, {r \in DOMAIN df.rows : Keeps(df.rows[r])}))

(* lines 413-416: the rows within the requested dates; a bound is <<>>     *)
(* (None) or <<text>>.  A comparison with a missing date is false.         *)
FilterByDate(df, start_date, end_date) ==
    LET d == ColIndex(df, h_date_parsed)
        Keeps(row) ==
            /\ start_date # <<>> =>
                  (row[d].k = "date" /\ row[d].n >= to_datetime(Txt(start_date[1])).n)
            /\ end_date # <<>> =>
                  (row[d].k = "date" /\ row[d].n <= to_datetime(Txt(end_date[1])).n)
    IN  Frame(df.cols, Pick(df.rows, {r \in DOMAIN df.rows : Keeps(df.rows[r])}))

(* The calendar of the model: a week is 7 days, a month 30 days and a year *)
(* 360 days, counted from day 0.                                           *)
DaysPerWeek == 7
DaysPerMonth == 30
DaysPerYear == 360

\* lines 423-424: the days of one period of the frequency; an unknown
\* frequency means months
PeriodDays(frequency) ==
    CASE frequency = "W" -> DaysPerWeek
      [] frequency = "Y" -> DaysPerYear
      [] OTHER -> DaysPerMonth

\* the period a timestamp falls into
PeriodOf(t, frequency) == (t \div TicksPerDay) \div PeriodDays(frequency)

\* Series.sum() of number cells
SumCells(cells) ==
    LET F[i \in 0..Len(cells)] ==
            IF i = 0 THEN 0
            ELSE F[i - 1] + (IF cells[i].k = "num" THEN cells[i].n ELSE 0)
    IN  F[Len(cells)]

Max(S) == CHOOSE x \in S : \A y \in S : x >= y

(* line 432, df.resample(freq).agg(agg_cols).fillna(0): one record per     *)
(* period from the first period that has a row to the last, in time order, *)
(* labelled with the last day of the period and holding the sum of each    *)
(* aggregated column over the rows of the period (0 when it has none).     *)
resample(df, frequency, agg_cols) ==
    LET d == ColIndex(df, h_date_parsed)
        dated == {r \in DOMAIN df.rows : df.rows[r][d].k = "date"}
        P(r) == PeriodOf(df.rows[r][d].n, frequency)
        first == Min({P(r) : r \in dated})
        last == Max({P(r) : r \in dated})
    IN  IF dated = {} THEN <<>>
        ELSE Tup([b \in 1..(last - first + 1) |->
                [index |-> (first + b) * PeriodDays(frequency) - 1,
                 sums |-> [c \in agg_cols |->
                            SumCells(Pick(Column(df, ColIndex(df, c)),
                                          {r \in dated : P(r) = first + b - 1}))]]])

\* round(num / den, ndigits) as a whole number of units 10^-ndigits, for
\* num already scaled by 10^ndigits: halves go to the even neighbour
RoundHalfEven(num, den) ==
    LET q == num \div den
        r == num % den
    IN  IF 2 * r < den THEN q
        ELSE IF 2 * r > den THEN q + 1
        ELSE IF q % 2 = 0 THEN q ELSE q + 1

Abs(x) == IF x < 0 THEN -x ELSE x

\* prof_growth taken relative to the latest period instead of the previous
prof_growth_over_latest(n, latest_prof, prev_prof) ==
    IF n >= 2 /\ Abs(prev_prof) > 0 /\ Abs(latest_prof) > 0
    THEN RoundHalfEven((latest_prof - prev_prof) * 10000, Abs(latest_prof))
    ELSE 0

(* lines 455-458: the growth of the profit of the latest of n periods over *)
(* the previous one, in hundredths of a percent                            *)
prof_growth(n, latest_prof, prev_prof) ==
    IF n >= 2 /\ Abs(prev_prof) > 0
    THEN RoundHalfEven((latest_prof - prev_prof) * 10000, Abs(prev_prof))
    ELSE 0

(* lines 441-464 and 478: the KPIs of the latest period.  growth and       *)
(* projection are in hundredths, efficiency in tenths.                     *)
Metrics(resampled, rev_col, exp_col, prof_col) ==
    LET n == Len(resampled)
        Get(row, col) == IF col # <<>> /\ col[1] \in DOMAIN row.sums
                         THEN row.sums[col[1]] ELSE 0
        latest_rev == IF n > 0 THEN Get(resampled[n], rev_col) ELSE 0
        latest_exp == IF n > 0 THEN Get(resampled[n], exp_col) ELSE 0
        latest_prof == IF n > 0 THEN Get(resampled[n], prof_col) ELSE 0
        prev_prof == IF n >= 2 THEN Get(resampled[n - 1], prof_col) ELSE 0
        growth == prof_growth(n, latest_prof, prev_prof)
        efficiency == IF n > 0 /\ latest_rev > 0
                      THEN RoundHalfEven(latest_prof * 1000, latest_rev)
                      ELSE 0
    IN  [total_revenue |-> latest_rev,
         total_expenses |-> latest_exp,
         total_profit |-> latest_prof,
         growth |-> growth,
         efficiency |-> efficiency,
         projection |-> IF growth > 0
                        THEN RoundHalfEven(latest_prof * (10000 + growth), 100)
                        ELSE latest_prof * 105]

\* the responses of lines 365, 390, 419 and 430
EmptyResult(message, frame, src) ==
    [code |-> 200, message |-> message, metrics |-> <<>>, chart_data |-> <<>>,
     ai_synthesis |-> <<>>, column_mapping |-> <<>>, frame |-> frame, src |-> src]

(* lines 357-488, the body of the try of get_aggregate_analytics: the      *)
(* exception that leaves it or the response.  `frame` and `src` are not    *)
(* part of the response: they record the merged frame after step 5 and the *)
(* report each of its rows comes from.                                     *)
AggregateTryBody(all_reports, frequency, start_date, end_date, svc) ==
    LET all_processed_rows == ProcessedRows(all_reports)
    IN  IF all_reports = <<>> \/ all_processed_rows = <<>>
        THEN [exc |-> NoExc, value |-> EmptyResult("No data found", EmptyFrame, <<>>)]
        ELSE
        LET src == RowSources(all_reports)
            res == ResolveAndDerive(concat(all_processed_rows))
            df == FilterByDate(res.df, start_date, end_date)
            agg_cols == {c[1] : c \in {res.rev_col, res.exp_col, res.prof_col} \ {<<>>}}
        IN  IF IsEmpty(df)
            THEN [exc |-> NoExc, value |-> EmptyResult("Empty timeframe", res.df, src)]
            ELSE IF agg_cols = {}
            THEN [exc |-> NoExc, value |-> EmptyResult("No numeric data", res.df, src)]
            ELSE
            LET resampled == resample(df, frequency, agg_cols)
                ai == generate_ai_report_async(svc)
            IN  IF ai.exc # NoExc THEN [exc |-> ai.exc]
                ELSE [exc |-> NoExc,
                      value |-> [code |-> 200, message |-> "",
                                 metrics |-> <<Metrics(resampled, res.rev_col,
                                                       res.exp_col, res.prof_col)>>,
                                 chart_data |-> resampled,
                                 ai_synthesis |-> <<ai.value>>,
                                 column_mapping |->
                                     <<[date |-> <<h_date_parsed>>,
                                        revenue |-> res.rev_col,
                                        expenses |-> res.exp_col,
                                        profit |-> res.prof_col]>>,
                                 frame |-> res.df, src |-> src]]

\* get_aggregate_analytics: any exception of the body becomes a 500
get_aggregate_analytics(all_reports, frequency, start_date, end_date, svc) ==
    LET b == AggregateTryBody(all_reports, frequency, start_date, end_date, svc)
    IN  IF b.exc = NoExc THEN b.value
        ELSE [code |-> 500, message |-> b.exc, metrics |-> <<>>, chart_data |-> <<>>,
              ai_synthesis |-> <<>>, column_mapping |-> <<>>,
              frame |-> EmptyFrame, src |-> <<>>]

\* find({"user_id": user_id}): the user's reports in natural order
ReportsOf(u) == Pick(reports, {i \in DOMAIN reports : reports[i].user_id = u})

\* GET /analytics/aggregate
Aggregate(u, frequency, start_date, end_date, svc) ==
    \E r \in {get_aggregate_analytics(ReportsOf(u), frequency, start_date,
                                      end_date, svc)} :
        /\ response' = [op |-> "aggregate", user |-> u, code |-> r.code,
                        frequency |-> frequency, start_date |-> start_date,
                        end_date |-> end_date, svc |-> svc,
                        message |-> r.message, metrics |-> r.metrics,
                        chart_data |-> r.chart_data,
                        ai_synthesis |-> r.ai_synthesis,
                        column_mapping |-> r.column_mapping,
                        frame |-> r.frame, src |-> r.src]
        /\ UNCHANGED <<now, nextOid, reports, chats, gens>>

\* datasets with the columns of the examples of role resolution and of
\* profit derivation
CsvRoles == File("csv", TRUE,
                 Frame(<<<<"T","o","t","a","l"," ","C","o","s","t">>,
                         <<"r","e","v","e","n","u","e","_","u","s","d">>,
                         <<"N","e","t","-","M","a","r","g","i","n">>>>,
                       <<<<Num(30), Num(90), Num(60)>>>>), EmptyFrame)
CsvProfit == File("csv", TRUE,
                  Frame(<<h_date, <<"R","e","v","e","n","u","e">>,
                          <<"E","x","p","e","n","s","e">>, <<"P","r","o","f","i","t">>>>,
                        <<<<Txt(<<"8">>), Num(10), Num(5), Num(5)>>>>), EmptyFrame)
CsvSales == File("csv", TRUE,
                 Frame(<<<<"S","a","l","e","s">>, <<"C","o","s","t">>>>,
                       <<<<Num(200), Num(50)>>, <<Num(70), Num(20)>>>>), EmptyFrame)

\* a dataset with rows in two successive weeks, of profit 200 and 250
CsvGrowth == File("csv", TRUE,
                  Frame(<<h_date, <<"S","a","l","e","s">>, <<"C","o","s","t">>>>,
                        <<<<Txt(<<"1">>), Num(300), Num(100)>>,
                          <<Txt(<<"8">>), Num(400), Num(150)>>>>), EmptyFrame)

\* a dataset whose date-role column is not parsed at upload: one row with
\* an unparseable date, one dated day 2
CsvDay == File("csv", TRUE,
               Frame(<<<<"D","a","y">>, <<"S","a","l","e","s">>>>,
                     <<<<Txt(<<"x">>), Num(40)>>, <<Txt(<<"2">>), Num(60)>>>>),
               EmptyFrame)

----------------------------------------------------------------------------
(* Chat.  A text (message content, stream chunk) is a sequence of          *)
(* characters or of the blocks the mock analyst assembles its answer from; *)
(* concatenation of texts is concatenation of sequences.                   *)

err_429 == <<"4","2","9">>
err_net == <<"n","e","t">>

\* get_mock_chat_response(query, data_context, error_context)['content']
get_mock_chat_response(query, error_context) ==
    LET hint == IF Contains(error_context, err_429) THEN "hint_quota"
                ELSE IF Contains(error_context, <<"4","0","3">>) THEN "hint_leaked"
                ELSE "hint_key"
        body == IF Contains(lower(query), kw_revenue) \/ Contains(lower(query), kw_profit)
                THEN "body_finance"
                ELSE IF Contains(lower(query), <<"a","n","a","l","y","z","e">>) THEN "body_analyze"
                ELSE "body_generic"
    IN  <<hint, body, "note">>

Msg(role, content) == [role |-> role, content |-> content]

NoId == <<"none", 0>>

\* ChatRequest
ChatRequest(user_id, chat_id, messages) ==
    [user_id |-> user_id, chat_id |-> chat_id, messages |-> messages]

\* the chunk texts of a stream, in order: the i-th chunk of every stream
\* (an empty text now and then, as the service sends them)
ChunkText(i) ==
    CASE i % 3 = 1 -> <<"a">>
      [] i % 3 = 2 -> <<>>
      [] OTHER -> <<"b">>

\* the texts of the errors a stream raises
StreamErrors == {err_429, err_net}

connection_lost == <<"connection_lost">>

\* Fallback that keeps only the mock text as the accumulated text
FallbackDiscardsPartial(accumulated, mock_text) ==
    IF accumulated # <<>>
    THEN [sent |-> connection_lost \o mock_text, accumulated |-> mock_text]
    ELSE [sent |-> mock_text, accumulated |-> mock_text]

(* lines 733-740: the content sent and the accumulated text after the      *)
(* stream failed with `accumulated` already sent.                          *)
Fallback(accumulated, mock_text) ==
    IF accumulated # <<>>
    THEN [sent |-> connection_lost \o mock_text,
          accumulated |-> accumulated \o (connection_lost \o mock_text)]
    ELSE [sent |-> mock_text, accumulated |-> mock_text]

(* update_one({"id": chat_id}, {"$set": {...}}, upsert=True): the first    *)
(* document with that id gets the fields, or a new document is inserted.   *)
Upsert(coll, chat_id, user_id, messages, t, n) ==
    IF MatchingId(coll, chat_id) # {}
    THEN [coll EXCEPT ![Min(MatchingId(coll, chat_id))] =
              [@ EXCEPT !.user_id = user_id, !.messages = messages,
                        !.updated_at = isoformat(t)]]
    ELSE Append(coll, [oid |-> n, id |-> chat_id, user_id |-> user_id,
                       messages |-> messages, updated_at |-> isoformat(t)])

\* owners of the documents an update or a lookup by chat_id touches
OwnersById(coll, chat_id) ==
    IF MatchingId(coll, chat_id) # {}
    THEN {coll[Min(MatchingId(coll, chat_id))].user_id}
    ELSE {}

\* lines 692-696: the session identifier of the round
SessionId(req, t) == IF req.chat_id = NoId THEN ChatId(t) ELSE req.chat_id

\* lines 700 and 743: the messages of the session after the round
AllMsgs(messages, assistant_text) ==
    messages \o <<Msg("assistant", assistant_text)>>

(* POST /analytics/chat, up to the first suspension of the stream.         *)
(* Without a model (lines 698-712) the mock answer is saved and sent at    *)
(* once; with one, the stream is opened and runs as a coroutine.           *)
ChatStart(req, model) ==
    LET chat_id == SessionId(req, now)
        query == req.messages[Len(req.messages)].content
    IN  IF model = "none"
        THEN \E mock \in {get_mock_chat_response(query, <<>>)} :
               /\ MatchingId(chats, chat_id) = {} => nextOid <= MaxDocs
               /\ chats' = Upsert(chats, chat_id, req.user_id,
                                  AllMsgs(req.messages, mock), now, nextOid)
               /\ nextOid' = IF MatchingId(chats, chat_id) = {}
                             THEN nextOid + 1 ELSE nextOid
               /\ response' = [op |-> "chat_done", user |-> req.user_id,
                               chat_id |-> chat_id, saved |-> TRUE,
                               owners |-> OwnersById(chats, chat_id)]
               /\ UNCHANGED <<now, reports, gens>>
        ELSE /\ Len(gens) < MaxGens
             /\ gens' = Append(gens, [req |-> req, chat_id |-> chat_id,
                                      received |-> 0,
                                      accumulated_text |-> <<>>, sent |-> <<>>,
                                      failed |-> FALSE, pc |-> "streaming"])
             /\ UNCHANGED <<now, nextOid, reports, chats, response>>

(* lines 721-724: the stream delivers its next chunk to coroutine i,      *)
(* which sends it on unless it is empty; `received` counts the chunks of   *)
(* the stream, `sent` is what the caller has received so far.              *)
ChatChunk(i) ==
    LET g == gens[i]
        text == ChunkText(g.received + 1)
    IN  /\ g.pc = "streaming"
        /\ ~g.failed
        /\ g.received < MaxChunks
        /\ gens' = [gens EXCEPT ![i] =
                       IF text # <<>>
                       THEN [g EXCEPT !.received = @ + 1,
                                      !.accumulated_text = @ \o text,
                                      !.sent = Append(@, text)]
                       ELSE [g EXCEPT !.received = @ + 1]]
        /\ UNCHANGED <<now, nextOid, reports, chats, response>>

\* lines 725-740: the stream raises in coroutine i with an error of text
\* err; the fallback is sent
ChatFail(i, err) ==
    LET g == gens[i]
        query == g.req.messages[Len(g.req.messages)].content
    IN  /\ g.pc = "streaming"
        /\ ~g.failed
        /\ \E fb \in {Fallback(g.accumulated_text,
                               get_mock_chat_response(query, err))} :
             gens' = [gens EXCEPT ![i] =
                         [g EXCEPT !.failed = TRUE,
                                   !.accumulated_text = fb.accumulated,
                                   !.sent = Append(@, fb.sent)]]
        /\ UNCHANGED <<now, nextOid, reports, chats, response>>

(* lines 742-757: the stream of coroutine i has ended, or its fallback was *)
(* sent; the coroutine saves the completed interaction and ends.  When the *)
(* write raises, the outer except sends an error event and nothing is      *)
(* saved.                                                                  *)
ChatSave(i, db) ==
    LET g == gens[i]
    IN  /\ g.pc = "streaming"
        /\ IF db = "ok"
           THEN /\ MatchingId(chats, g.chat_id) = {} => nextOid <= MaxDocs
                /\ chats' = Upsert(chats, g.chat_id, g.req.user_id,
                                   AllMsgs(g.req.messages, g.accumulated_text),
                                   now, nextOid)
                /\ nextOid' = IF MatchingId(chats, g.chat_id) = {}
                              THEN nextOid + 1 ELSE nextOid
                /\ gens' = [gens EXCEPT ![i] = [g EXCEPT !.pc = "saved"]]
           ELSE /\ gens' = [gens EXCEPT ![i] = [g EXCEPT !.pc = "error"]]
                /\ UNCHANGED <<chats, nextOid>>
        /\ response' = [op |-> "chat_done", user |-> g.req.user_id,
                        chat_id |-> g.chat_id, saved |-> db = "ok",
                        owners |-> IF db = "ok" THEN OwnersById(chats, g.chat_id)
                                   ELSE {}]
        /\ UNCHANGED <<now, reports>>

\* the client of coroutine i goes away: the generator is closed unsaved
ChatAbort(i) ==
    /\ gens[i].pc = "streaming"
    /\ gens' = [gens EXCEPT ![i] = [@ EXCEPT !.pc = "closed"]]
    /\ UNCHANGED <<now, nextOid, reports, chats, response>>

\* chat["id"] = chat.get("id") or str(chat.get("_id")); chat.pop("_id")
ChatWithoutOid(d) ==
    [id |-> d.id, user_id |-> d.user_id, messages |-> d.messages,
     updated_at |-> d.updated_at]

UpdatedAt(d) == to_datetime(Txt(d.updated_at)).n

\* GET /analytics/chats
GetUserChats(u) ==
    \E o \in SortedDesc(chats, {i \in DOMAIN chats : chats[i].user_id = u},
                        UpdatedAt) :
        /\ response' = [op |-> "list_chats", user |-> u, code |-> 200,
                        body |-> Tup([i \in DOMAIN o |-> ChatWithoutOid(chats[o[i]])]),
                        owners |-> {chats[o[i]].user_id : i \in DOMAIN o}]
        /\ UNCHANGED <<now, nextOid, reports, chats, gens>>

\* find_one({"id": id}), then find_one by ObjectId(id): the position of the
\* document found, 0 when there is none
FindTarget(coll, id) == DeleteTarget(coll, id)

\* lines 574-581 and 598-603: the 404 raised inside the try is caught by
\* its `except Exception` and answered as 500
chat_lookup_code(target) ==
    IF target > 0 THEN 200
    ELSE IF CaughtByExceptException("HTTPException") THEN 500 ELSE 404

\* GET /analytics/chat/{chat_id}, sent by user u (the request carries no user)
GetChatHistory(u, chat_id) ==
    \E target \in {FindTarget(chats, chat_id)} :
        /\ response' = [op |-> "chat_history", user |-> u,
                        code |-> chat_lookup_code(target), id |-> chat_id,
                        body |-> IF target > 0
                                 THEN <<ChatWithoutOid(chats[target])>> ELSE <<>>,
                        owners |-> IF target > 0 THEN {chats[target].user_id}
                                   ELSE {}]
        /\ UNCHANGED <<now, nextOid, reports, chats, gens>>

\* DELETE /analytics/chat/{chat_id}, sent by user u
DeleteChat(u, chat_id) ==
    \E target \in {DeleteTarget(chats, chat_id)} :
        /\ chats' = IF target > 0 THEN RemoveAt(chats, target) ELSE chats
        /\ response' = [op |-> "delete_chat", user |-> u,
                        code |-> chat_lookup_code(target), id |-> chat_id,
                        owners |-> IF target > 0 THEN {chats[target].user_id}
                                   ELSE {}]
        /\ UNCHANGED <<now, nextOid, reports, gens>>

\* the message histories clients send
HistoryOne == <<Msg("user", <<"h","i">>)>>
HistoryTwo == <<Msg("user", <<"R","e","v","e","n","u","e","?">>)>>

----------------------------------------------------------------------------
(* The API as a whole, on narrow inputs *)

StoredIds(coll) == {coll[i].id : i \in DOMAIN coll}

Next ==
    \/ Tick
    \/ \E u \in Users : Upload(u, CsvDelete, SvcUnavailable, "ok")
    \/ \E u \in Users : ListReports(u)
    \/ \E u \in Users, id \in StoredIds(reports) : DeleteReport(u, id)
    \/ \E u \in Users, cid \in {NoId} \cup StoredIds(chats),
          h \in {HistoryOne, HistoryTwo} :
          ChatStart(ChatRequest(u, cid, h), "none")
    \/ \E u \in Users : GetUserChats(u)
    \/ \E u \in Users, id \in StoredIds(chats) : GetChatHistory(u, id)
    \/ \E u \in Users, id \in StoredIds(chats) : DeleteChat(u, id)

Spec == Init /\ [][Next]_vars

(* Uploads, listing and deletion of reports *)

NextUpload ==
    \/ Tick
    \/ \E u \in Users, f \in {CsvDelete, CsvBroken, TextPlain},
          db \in DbOutcomes : Upload(u, f, SvcUnavailable, db)
    \/ \E u \in Users : ListReports(u)
    \/ \E u \in Users, id \in KnownIds(reports) \cup {<<"client", 0>>} :
          DeleteReport(u, id)

SpecUpload == Init /\ [][NextUpload]_vars

(* Chat rounds of one user, over every course a stream can take *)

NextStream ==
    \/ \E cid \in {NoId, <<"client", 1>>}, model \in {"none", "ok"} :
          ChatStart(ChatRequest("A", cid, HistoryOne), model)
    \/ \E i \in DOMAIN gens : ChatChunk(i)
    \/ \E i \in DOMAIN gens, err \in StreamErrors : ChatFail(i, err)
    \/ \E i \in DOMAIN gens, db \in {"ok", "error"} : ChatSave(i, db)
    \/ \E i \in DOMAIN gens : ChatAbort(i)

SpecStream == Init /\ [][NextStream]_vars

(* One upload and aggregations of it, the narrative service in all its     *)
(* behaviours                                                              *)
NextNarr ==
    \/ /\ reports = <<>>
       /\ \E svc \in ServiceOutcomes : Upload("A", CsvDelete, svc, "ok")
    \/ \E svc \in ServiceOutcomes : Aggregate("A", "M", <<>>, <<>>, svc)
    \/ ListReports("A")

SpecNarr == Init /\ [][NextNarr]_vars

(* Aggregation over a pool of datasets, uploaded on day 0 or on day 15;    *)
(* the start date of a request is none or day 2                            *)

NextAgg ==
    \/ NextDay(15)
    \/ \E f \in {CsvDelete, CsvRoles, CsvProfit, CsvSales, CsvGrowth} :
          Upload("A", f, SvcUnavailable, "ok")
    \/ \E frequency \in {"W", "M", "Y"}, start_date \in {<<>>, <<<<"2">>>>} :
          Aggregate("A", frequency, start_date, <<>>, SvcUnavailable)

SpecAgg == Init /\ [][NextAgg]_vars


(* Aggregation over date ranges: uploads of user A on day 0 or day 15,     *)
(* ranges that start on day 1 or 30 and end on day 0 or 1, or are open;    *)
(* user B has no report                                                    *)

NextRange ==
    \/ NextDay(15)
    \/ \E f \in {CsvDelete, CsvSales} : Upload("A", f, SvcUnavailable, "ok")
    \/ \E start_date \in {<<>>, <<<<"1">>>>, <<<<"3","0">>>>},
          end_date \in {<<>>, <<<<"0">>>>, <<<<"1">>>>} :
          Aggregate("A", "M", start_date, end_date, SvcUnavailable)
    \/ Aggregate("B", "M", <<>>, <<>>, SvcUnavailable)

SpecRange == Init /\ [][NextRange]_vars

\* datasets with and without dates uploaded on two days, and aggregations
\* over the unbounded range
NextStamp ==
    \/ NextDay(15)
    \/ \E f \in {CsvSales, CsvDay, CsvGrowth} : Upload("A", f, SvcUnavailable, "ok")
    \/ \E frequency \in {"W", "M"} :
          Aggregate("A", frequency, <<>>, <<>>, SvcUnavailable)

SpecStamp == Init /\ [][NextStamp]_vars

\* lookups and deletions by identifiers that are stored and by one that
\* matches nothing
NextLookup ==
    \/ Upload("A", CsvDelete, SvcUnavailable, "ok")
    \/ \E cid \in {NoId} \cup StoredIds(chats), h \in {HistoryOne, HistoryTwo} :
          ChatStart(ChatRequest("A", cid, h), "none")
    \/ \E id \in KnownIds(reports) \cup {<<"client", 0>>} : DeleteReport("A", id)
    \/ \E id \in KnownIds(chats) \cup {<<"client", 0>>} : GetChatHistory("A", id)
    \/ \E id \in KnownIds(chats) \cup {<<"client", 0>>} : DeleteChat("A", id)

SpecLookup == Init /\ [][NextLookup]_vars

(* Cleaning of raw datasets.  A raw dataset has two columns and up to      *)
(* MaxRows rows.  In one family the two headers become equal when          *)
(* standardized ("A b" and "a-b") and the cells are numbers or missing; in *)
(* the other the headers are "n" and "s", the first column holds numbers   *)
(* or missing values, the second also text to be trimmed.                  *)
RawRows(cells1, cells2) ==
    UNION {{Tup([r \in 1..n |-> <<c1[r], c2[r]>>]) :
               c1 \in [1..n -> cells1], c2 \in [1..n -> cells2]} : n \in 1..MaxRows}

RawFiles ==
    {File("csv", TRUE, Frame(<<<<"A"," ","b">>, <<"a","-","b">>>>, rows), EmptyFrame) :
        rows \in RawRows({NaN, Num(1), Num(3)}, {NaN, Num(1), Num(3)})}
    \cup
    {File("csv", TRUE, Frame(<<<<"n">>, <<"s">>>>, rows), EmptyFrame) :
        rows \in RawRows({NaN, Num(1), Num(3)}, {NaN, Num(2), Txt(<<" ","x">>)})}

NextClean ==
    \/ /\ reports = <<>>
       /\ \E f \in RawFiles : Upload("A", f, SvcUnavailable, "ok")
    \/ ListReports("A")

SpecClean == Init /\ [][NextClean]_vars

----------------------------------------------------------------------------
(* Claims *)

\* C1: an upload whose file cannot be parsed is answered with a 400-class
\* client error (not a 5xx, not a report).
C1_ParseFailureIsClientError ==
    (response.op = "upload" /\ ParseFile(response.file, 0).exc # NoExc)
        => (response.code \in 400..499 /\ response.body = <<>>)

\* C2: no two reports in the store carry the same id.
C2_ReportIdsUnique ==
    \A i, j \in DOMAIN reports : i # j => reports[i].id # reports[j].id

\* C3: a list, delete, chat-history or chat-round request of a user returns,
\* overwrites, re-assigns or deletes only documents that user owns.
C3_UserScopesStoreAccess ==
    response.op \in {"list_reports", "delete_report", "list_chats",
                     "chat_history", "chat_done", "delete_chat"}
        => response.owners \subseteq {response.user}

(* C4: when the stream fails after chunks were delivered, the fallback is  *)
(* sent after them (what was sent stays as it was, one non-empty message   *)
(* is added), and the assistant turn saved at the end of the round is the  *)
(* concatenation, in order, of everything sent.                            *)
C4_FallbackAppendedAndPersisted ==
    [][\A i \in DOMAIN gens :
          /\ (gens[i].pc = "streaming" /\ ~gens[i].failed /\ gens'[i].failed
              /\ gens[i].sent # <<>>)
                => /\ Len(gens'[i].sent) = Len(gens[i].sent) + 1
                   /\ SubSeq(gens'[i].sent, 1, Len(gens[i].sent)) = gens[i].sent
                   /\ gens'[i].sent[Len(gens'[i].sent)] # <<>>
                   /\ gens'[i].pc = "streaming"
          /\ (gens[i].pc = "streaming" /\ gens'[i].pc = "saved" /\ gens[i].failed
              /\ Len(gens[i].sent) >= 2)
                => /\ MatchingId(chats', gens[i].chat_id) # {}
                   /\ chats'[Min(MatchingId(chats', gens[i].chat_id))].messages
                        = gens[i].req.messages
                            \o <<Msg("assistant", Concat(gens[i].sent))>>]_vars

\* a round whose stream failed after a chunk was delivered has been saved
C4_Witness ==
    \E i \in DOMAIN gens :
        gens[i].pc = "saved" /\ gens[i].failed /\ Len(gens[i].sent) >= 2

(* C5: a stored chat session changes only by gaining one user message and  *)
(* one assistant message at its end: whatever step is taken, the messages  *)
(* of every session that stays in the store are the same as before, or     *)
(* the same followed by a user and an assistant message.                   *)
C5_SessionsAppendOnly ==
    [][\A i \in DOMAIN chats : \A j \in DOMAIN chats' :
          chats'[j].oid = chats[i].oid
            => LET old == chats[i].messages
                   new == chats'[j].messages
               IN  \/ new = old
                   \/ /\ Len(new) = Len(old) + 2
                      /\ SubSeq(new, 1, Len(old)) = old
                      /\ new[Len(old) + 1].role = "user"
                      /\ new[Len(old) + 2].role = "assistant"]_vars

(* C6: an upload that parses is answered 200 with the computed report,     *)
(* also when the store write fails or times out; its status is            *)
(* "completed" exactly when the write succeeded in time, "preview_only"    *)
(* otherwise.                                                              *)
C6_PersistenceFailureAbsorbed ==
    (response.op = "upload" /\ ParseFile(response.file, 0).exc = NoExc)
        => /\ response.code = 200
           /\ Len(response.body) = 1
           /\ response.body[1].user_id = response.user
           /\ response.body[1].insights = MockInsights
           /\ response.body[1].status \in {"completed", "preview_only"}
           /\ (response.body[1].status = "completed" <=> response.db = "ok")

\* an upload whose write timed out was answered
C6_Witness ==
    /\ response.op = "upload"
    /\ response.db \in {"timeout", "timeout_applied"}
    /\ response.code = 200
    /\ response.body[1].status = "preview_only"

(* C7: the narrative adapter never raises past its boundary, and when the  *)
(* service is unavailable, raises, or answers with something that is not   *)
(* an object holding a summary and a list of insights, the narrative of    *)
(* the upload or aggregate response is the fixed fallback (its summary and *)
(* its 4 insights) and the request is answered 200.                        *)
C7_FallbackOnUnexpectedShape ==
    LET svc == response.svc
        expected == /\ svc.model = "ok" /\ svc.call = "text" /\ svc.json = "dict"
                    /\ svc.hasSummary /\ svc.hasInsights /\ svc.insightsIsList
    IN  /\ (response.op = "upload" /\ ~expected)
              => /\ response.code = 200
                 /\ response.body[1].executive_summary
                        = get_mock_ai_response.executive_summary
                 /\ response.body[1].insights = get_mock_ai_response.insights
        /\ (response.op = "aggregate" /\ ReportsOf(response.user) # <<>> /\ ~expected)
              => /\ response.code = 200
                 /\ response.ai_synthesis = <<get_mock_ai_response>>

(* C8: the narrative of every upload or aggregate response that carries    *)
(* one, whether the service answered or the fallback was used, has a       *)
(* summary that is a string and exactly 4 insights.                        *)
C8_SummaryAndFourInsights ==
    /\ (response.op = "upload" /\ response.code = 200)
          => /\ response.body[1].executive_summary # "None"
             /\ Len(response.body[1].insights) = 4
    /\ (response.op = "aggregate" /\ response.ai_synthesis # <<>>)
          => /\ response.ai_synthesis[1].executive_summary # "None"
             /\ Len(response.ai_synthesis[1].insights) = 4

(* C9: in the column mapping of an aggregation no column has more than     *)
(* one role, and the revenue, expense and profit columns are those found   *)
(* by resolving the roles in the order date, revenue, expense, profit,     *)
(* each taking the first column that matches its keywords and was not      *)
(* taken by an earlier role.                                               *)
C9_RolesExclusiveInOrder ==
    (response.op = "aggregate" /\ response.column_mapping # <<>>)
        => LET m == response.column_mapping[1]
               cols == response.frame.cols
               First(keywords, taken) ==
                   LET hits == {j \in DOMAIN cols :
                                   /\ Matches(cols[j], keywords)
                                   /\ cols[j] \notin taken}
                   IN  IF hits = {} THEN <<>> ELSE <<cols[Min(hits)]>>
               date == First(DateKeywords, {})
               rev == First(RevenueKeywords, Range(date))
               exp == First(ExpenseKeywords, Range(date) \cup Range(rev))
               prof == First(ProfitKeywords,
                             Range(date) \cup Range(rev) \cup Range(exp))
           IN  /\ Range(m.revenue) \cap Range(m.expenses) = {}
               /\ Range(m.revenue) \cap Range(m.profit) = {}
               /\ Range(m.expenses) \cap Range(m.profit) = {}
               /\ m.revenue = rev
               /\ m.expenses = exp
               /\ m.profit = prof

(* C10: in the frame an aggregation computes its totals from, every row    *)
(* that comes from a report whose own columns have a revenue and an        *)
(* expense column and no profit column has, in the profit column of the    *)
(* aggregation, its revenue minus its expense, whatever other reports of   *)
(* the user are merged with it.                                            *)
C10_DerivedProfitPerRow ==
    (response.op = "aggregate" /\ response.column_mapping # <<>>)
        => \A r \in DOMAIN response.frame.rows :
              LET doc == reports[Min(MatchingOid(reports, response.src[r]))]
                  own == doc.cleaned_data.cols
                  rev == FirstMatch(own, RevenueKeywords)
                  exp == FirstMatch(own, ExpenseKeywords)
                  prof == FirstMatch(own, ProfitKeywords)
                  row == response.frame.rows[r]
                  m == response.column_mapping[1]
              IN  (rev # <<>> /\ exp # <<>> /\ rev # exp /\ prof = <<>>)
                    => /\ m.profit # <<>>
                       /\ row[ColIndex(response.frame, m.profit[1])]
                            = Num(row[ColIndex(response.frame, rev[1])].n
                                  - row[ColIndex(response.frame, exp[1])].n)

(* C11: the growth of an aggregation is 0 when its series has fewer than   *)
(* two buckets or the profit of the bucket before the latest is 0;         *)
(* otherwise, for a positive profit in that bucket, it is the percent      *)
(* change of the profit from that bucket to the latest, to the nearest     *)
(* hundredth (200 then 250 gives 25.00).                                   *)
C11_GrowthOverPrecedingBucket ==
    (response.op = "aggregate" /\ response.metrics # <<>>)
        => LET series == response.chart_data
               n == Len(series)
               m == response.column_mapping[1]
               Profit(b) == IF m.profit # <<>> THEN series[b].sums[m.profit[1]]
                            ELSE 0
               g == response.metrics[1].growth
           IN  IF n < 2 THEN g = 0
               ELSE IF Profit(n - 1) = 0 THEN g = 0
               ELSE /\ Profit(n - 1) > 0
                       => 2 * Abs(g * Profit(n - 1)
                                  - (Profit(n) - Profit(n - 1)) * 10000)
                            <= Profit(n - 1)
                    /\ (Profit(n - 1) = 200 /\ Profit(n) = 250) => g = 2500

\* an aggregation whose last two buckets have the profits 200 and 250
C11_Witness ==
    /\ response.op = "aggregate"
    /\ response.metrics # <<>>
    /\ Len(response.chart_data) >= 2
    /\ LET n == Len(response.chart_data)
           p == response.column_mapping[1].profit[1]
       IN  /\ response.chart_data[n - 1].sums[p] = 200
           /\ response.chart_data[n].sums[p] = 250
           /\ response.metrics[1].growth = 2500

(* C12: an aggregation for a user without reports, or in which no row has  *)
(* its timestamp within the requested range (at or after the start, at or  *)
(* before the end), is answered 200 with empty metrics and an empty chart  *)
(* series; and when rows are within the range the answer is not the empty  *)
(* one and the totals of its series are the totals of exactly those rows.  *)
C12_EmptyRangeIsEmptySuccess ==
    response.op = "aggregate"
        => LET f == response.frame
               InRange(row) ==
                   LET t == row[ColIndex(f, h_date_parsed)]
                   IN  /\ t.k = "date"
                       /\ response.start_date # <<>>
                            => t.n >= to_datetime(Txt(response.start_date[1])).n
                       /\ response.end_date # <<>>
                            => t.n <= to_datetime(Txt(response.end_date[1])).n
               kept == {r \in DOMAIN f.rows : InRange(f.rows[r])}
               series == response.chart_data
               Total[b \in 0..Len(series)] ==
                   IF b = 0 THEN [c \in DOMAIN series[1].sums |-> 0]
                   ELSE [c \in DOMAIN series[1].sums |->
                            Total[b - 1][c] + series[b].sums[c]]
           IN  /\ (ReportsOf(response.user) = <<>> \/ kept = {})
                    => /\ response.code = 200
                       /\ response.metrics = <<>>
                       /\ response.chart_data = <<>>
               /\ kept # {}
                    => /\ response.code = 200
                       /\ response.message \notin {"No data found", "Empty timeframe"}
                       /\ series # <<>>
                            => \A c \in DOMAIN series[1].sums :
                                 Total[Len(series)][c]
                                   = SumCells(Pick(Column(f, ColIndex(f, c)), kept))

\* an aggregation of stored rows none of which is within the requested range
C12_Witness ==
    /\ response.op = "aggregate"
    /\ response.start_date # <<>>
    /\ response.frame.rows # <<>>
    /\ response.message = "Empty timeframe"
    /\ response.code = 200
    /\ response.chart_data = <<>>

(* C13: an upload of a dataset in which two raw column names become equal  *)
(* when standardized is refused with a 400-class client error and no       *)
(* report.                                                                 *)
C13_HeaderCollisionRejected ==
    (response.op = "upload"
       /\ ParseFile(response.file, 0).exc = NoExc
       /\ \E i, j \in DOMAIN response.file.df.cols :
             /\ i # j
             /\ StandardizeHeader(response.file.df.cols[i])
                  = StandardizeHeader(response.file.df.cols[j]))
        => (response.code \in 400..499 /\ response.body = <<>>)

(* C14: the cleaned dataset of an upload (of a dataset whose standardized  *)
(* column names differ) has no row and no column that is entirely          *)
(* missing and no missing value in a numeric column; and a numeric column  *)
(* of the input that has no present value is in the cleaned dataset,       *)
(* filled with 0.                                                          *)
C14_CleanedHasNoMissingNumbers ==
    (response.op = "upload" /\ response.code = 200 /\ response.file.ext = "csv"
       /\ \A i, j \in DOMAIN response.file.df.cols :
             i # j => StandardizeHeader(response.file.df.cols[i])
                        # StandardizeHeader(response.file.df.cols[j]))
        => LET raw == response.file.df
               out == response.body[1].cleaned_data
           IN  /\ \A r \in DOMAIN out.rows :
                     \E j \in DOMAIN out.cols : out.rows[r][j].k # "nan"
               /\ \A j \in DOMAIN out.cols :
                     \E r \in DOMAIN out.rows : out.rows[r][j].k # "nan"
               /\ \A j \in DOMAIN out.cols :
                     Dtype(Column(out, j)) = "number"
                       => \A r \in DOMAIN out.rows : out.rows[r][j].k = "num"
               /\ \A j \in DOMAIN raw.cols :
                     (\A r \in DOMAIN raw.rows : raw.rows[r][j].k = "nan")
                       => \E c \in DOMAIN out.cols :
                             /\ out.cols[c] = StandardizeHeader(raw.cols[j])
                             /\ out.rows # <<>>
                             /\ \A r \in DOMAIN out.rows : out.rows[r][c] = Num(0)

(* C15: when a delete request of a user for the id of one of that user's   *)
(* reports has reported success, the listing for that user that follows    *)
(* it contains no report with that id.                                     *)
C15_DeletedIdLeavesListing ==
    [][(/\ response.op = "delete_report"
        /\ response.code = 200
        /\ response.owners = {response.user}
        /\ response'.op = "list_reports"
        /\ response'.user = response.user)
          => \A i \in DOMAIN response'.body :
                response'.body[i].id # response.id]_vars

(* C16: the buckets of the chart series are in ascending chronological     *)
(* order, and every bucket contains at least one row of the aggregated     *)
(* datasets (in the requested range) whose timestamp lies in its period.   *)
C16_NoEmptyBucketSynthesized ==
    (response.op = "aggregate" /\ response.code = 200)
        => LET chart == response.chart_data
               df == FilterByDate(response.frame, response.start_date,
                                  response.end_date)
               d == ColIndex(df, h_date_parsed)
           IN  /\ \A i, j \in DOMAIN chart :
                     i < j => chart[i].index < chart[j].index
               /\ \A b \in DOMAIN chart :
                     \E r \in DOMAIN df.rows :
                        /\ df.rows[r][d].k = "date"
                        /\ PeriodOf(df.rows[r][d].n, response.frequency)
                             = PeriodOf(chart[b].index * TicksPerDay,
                                      response.frequency)

(* C17: in the merged frame of an aggregation, a row whose dataset has no  *)
(* date-role column, or whose date is missing or unparseable, carries the  *)
(* creation timestamp of the report it comes from.                         *)
C17_FallbackIsOwnCreationTime ==
    (response.op = "aggregate" /\ response.code = 200)
        => \A r \in DOMAIN response.frame.rows :
              \A i \in DOMAIN reports :
                 reports[i].oid = response.src[r]
                   => LET data == reports[i].cleaned_data
                          k == r + 1 - Min({q \in DOMAIN response.src :
                                              response.src[q] = response.src[r]})
                          d_col == FirstMatch(data.cols, DateKeywords)
                          fallback ==
                              \/ d_col = <<>>
                              \/ to_datetime(data.rows[k][ColIndex(data, d_col[1])]).k
                                    # "date"
                      IN  fallback =>
                             response.frame.rows[r][ColIndex(response.frame,
                                                             h_date_parsed)]
                               = to_datetime(Txt(reports[i].created_at))

\* two reports created on different days each gave their own creation time
\* to a row without a usable date
C17_Witness ==
    /\ response.op = "aggregate" /\ response.code = 200
    /\ \E r1, r2 \in DOMAIN response.frame.rows :
          \E i1, i2 \in DOMAIN reports :
             /\ reports[i1].oid = response.src[r1]
             /\ reports[i2].oid = response.src[r2]
             /\ reports[i1].created_at # reports[i2].created_at
             /\ FirstMatch(reports[i1].cleaned_data.cols, DateKeywords) = <<>>
             /\ FirstMatch(reports[i2].cleaned_data.cols, DateKeywords) # <<>>
             /\ response.frame.rows[r1][ColIndex(response.frame, h_date_parsed)]
                  = to_datetime(Txt(reports[i1].created_at))
             /\ response.frame.rows[r2][ColIndex(response.frame, h_date_parsed)]
                  = to_datetime(Txt(reports[i2].created_at))

C19_UnknownIdIsNotFound ==
    [][/\ (response'.op = "delete_report"
             /\ DeleteTarget(reports, response'.id) = 0)
          => (response'.code = 404 /\ reports' = reports /\ chats' = chats)
       /\ (response'.op \in {"chat_history", "delete_chat"}
             /\ FindTarget(chats, response'.id) = 0)
          => (response'.code = 404 /\ reports' = reports /\ chats' = chats)]_vars

====
